---- MODULE Spec2Model ----
(***************************************************************************)
(* Model of the fitness tracker's backend (src/server.ts): the SQLite      *)
(* store with its three tables, the database initialisation script and     *)
(* the five Express routes.  Every route handler is synchronous, so one    *)
(* handler is one atomic step of the Node event loop.  The model goes on    *)
(* with the two React front ends that follow in the same file: the AI      *)
(* Coach screen with the Advice Relay it calls, and the local-storage      *)
(* App's workouts list and stats.                                          *)
(*                                                                         *)
(* Dates are ISO 8601 strings in the source; they are modelled by their    *)
(* day number, which orders and compares exactly as the strings do.        *)
(***************************************************************************)
EXTENDS Integers, Sequences, FiniteSets, TLC

VARIABLES
    workouts,        \* table workouts, rows in rowid order
    exercises,       \* table exercises, rows in rowid order
    user_profile,    \* table user_profile, rows in rowid order
    sqlite_sequence, \* AUTOINCREMENT counters of the two tables
    today,           \* the day date('now') resolves to
    pending,         \* requests accepted by the socket, not yet dispatched
    request,         \* req.body of the request handled last
    response,        \* the response to the request handled last
    before,          \* the database file as the request handled last found it
    assigned,        \* the workout ids lastInsertRowid returned, in order
    served,          \* who was given which workout id (dispatched requests)
    submitted,       \* req.body of the latest POST /api/profile
    listening        \* the process is up and takes requests

\* State of the front ends (the React components that follow the server in
\* src/server.ts) and of the Advice Relay they call.
VARIABLES
    variant,           \* which front end runs: the API-backed or the local-storage one
    query,             \* AICoach: the text in the input
    chat,              \* AICoach: the messages shown
    loading,           \* AICoach: the loading flag
    suggestedWorkout,  \* AICoach: the plan shown, or null
    inflight,          \* Advice Relay calls awaited by a handler
    started,           \* how many Advice Relay calls were started
    relay,             \* the Advice Relay call that settled last
    fitpulse_workouts, \* App (local storage): the workouts list
    removed,           \* how many workouts the last handleDelete took out
    clock,             \* the instant new Date() and Date.now() read
    zone,              \* the time zone of the browser
    stats              \* App (local storage): the memoized stats

storeVars == <<workouts, exercises, user_profile, sqlite_sequence, today,
               pending, request, response, before, assigned, served,
               submitted, listening>>

coachVars == <<variant, query, chat, loading, suggestedWorkout, inflight,
               started, relay>>

localVars == <<fitpulse_workouts, removed, clock, zone, stats>>

frontVars == <<coachVars, localVars>>

vars == <<storeVars, frontVars>>

-----------------------------------------------------------------------------
(* Bounds of the model *)

MaxWorkouts == 2
MaxPending == 2
MaxTicks == 1
MaxServed == 3
MaxCalls == 2
MaxList == 2

-----------------------------------------------------------------------------
(* Values *)

\* JavaScript undefined / JSON null / absent field, bound by better-sqlite3
\* as SQL NULL.
NULL == "<null>"

\* The day the server starts on, and the days a request may carry: a week
\* before that day, that day, and the day after it.
Day0 == 20
Dates == {Day0 - 7, Day0, Day0 + 1}

WorkoutNames == {"Leg Day"}
Durations == {45}
CaloriesValues == {300, -50}

Squat  == [name |-> "Squat", sets |-> 4, reps |-> 8,  weight |-> 80]
Bench  == [name |-> "Bench", sets |-> 3, reps |-> 10, weight |-> 60]
NoName == [name |-> NULL,    sets |-> 3, reps |-> 12, weight |-> 0]

\* req.body.exercises: absent, some non-array JSON value, or an array.
ExercisesFields ==
    { [kind |-> "absent", items |-> <<>>], [kind |-> "scalar", items |-> <<>>] }
    \cup { [kind |-> "array", items |-> s] :
             s \in { <<>>, <<Squat, Bench>>, <<Squat, NoName, Bench>>,
                     <<NoName>> } }

NamedBodies ==
    { [name |-> n, date |-> d, duration |-> du, calories |-> c, exercises |-> e] :
        n \in WorkoutNames, d \in Dates, du \in Durations,
        c \in CaloriesValues, e \in ExercisesFields }

\* A request without a name.
Nameless ==
    [name |-> NULL, date |-> Day0, duration |-> 45, calories |-> 300,
     exercises |-> [kind |-> "array", items |-> <<Squat, Bench>>]]

WorkoutBodies == NamedBodies \cup {Nameless}

NoBody == [name |-> NULL]

ProfileBodies ==
    { [name |-> "Ana", weight |-> w, height |-> 165, goal |-> "Perder peso"] :
        w \in {60, -5} }

DefaultProfile ==
    [id |-> 1, name |-> "Atleta", weight |-> 75, height |-> 175,
     goal |-> "Ganhar massa muscular"]

-----------------------------------------------------------------------------
(* The store layer: what the SQL statements do *)

Range(s) == { s[i] : i \in DOMAIN s }

\* Plain INSERT into a table without the primary key: always a new row.
InsertAlways(table, row) == Append(table, row)

\* INSERT OR REPLACE: the row with that primary key is overwritten.
InsertOrReplace(table, row) ==
    IF \E r \in Range(table) : r.id = row.id
    THEN [i \in DOMAIN table |-> IF table[i].id = row.id THEN row ELSE table[i]]
    ELSE Append(table, row)

\* INSERT OR IGNORE INTO user_profile (id, ...) VALUES (1, ...): the row is
\* dropped when a row with that primary key exists.
InsertOrIgnore(table, row) ==
    IF \E r \in Range(table) : r.id = row.id THEN table ELSE Append(table, row)

\* The largest id used so far, taken for the next one.
NextRowidStale(table, seq) ==
    LET ids == { r.id : r \in Range(table) } \cup {seq}
    IN  CHOOSE m \in ids : \A k \in ids : k <= m

\* The id AUTOINCREMENT gives the next row of a table.
NextRowid(table, seq) ==
    LET ids == { r.id : r \in Range(table) } \cup {seq}
    IN  (CHOOSE m \in ids : \A k \in ids : k <= m) + 1

\* INSERT INTO workouts (name, date, duration, calories): the NOT NULL
\* constraint on name makes the statement throw (every modelled request
\* carries a date).
WorkoutInsertFails(body) == body.name = NULL

\* The values bound in another order: calories before duration.
WorkoutRowSwapped(id, body) ==
    [id |-> id, name |-> body.name, date |-> body.date,
     duration |-> body.calories, calories |-> body.duration]

WorkoutRow(id, body) ==
    [id |-> id, name |-> body.name, date |-> body.date,
     duration |-> body.duration, calories |-> body.calories]

\* INSERT INTO exercises (workout_id, name, sets, reps, weight): NOT NULL on
\* name.
ExerciseInsertFails(ex) == ex.name = NULL

\* The row's own rowid bound as workout_id.
ExerciseRowOwnId(id, workoutId, ex) ==
    [id |-> id, workout_id |-> id, name |-> ex.name, sets |-> ex.sets,
     reps |-> ex.reps, weight |-> ex.weight]

ExerciseRow(id, workoutId, ex) ==
    [id |-> id, workout_id |-> workoutId, name |-> ex.name, sets |-> ex.sets,
     reps |-> ex.reps, weight |-> ex.weight]

\* The number of exercise inserts of the loop that run to the end: all of
\* them, or those before the first one that throws.
InsertedCount(items) ==
    IF \E i \in DOMAIN items : ExerciseInsertFails(items[i])
    THEN (CHOOSE i \in DOMAIN items :
            /\ ExerciseInsertFails(items[i])
            /\ \A j \in 1..(i - 1) : ~ExerciseInsertFails(items[j])) - 1
    ELSE Len(items)

\* if (exercises): a non-array value such as a string is iterated too, and
\* its items (characters) have no name.
LoopItemsOfAnyTruthy(field) ==
    IF field.kind = "array" THEN field.items
    ELSE IF field.kind = "scalar" THEN <<NoName>> ELSE <<>>

\* if (exercises && Array.isArray(exercises)): the items the loop runs over.
LoopItems(field) == IF field.kind = "array" THEN field.items ELSE <<>>


\* The arrangements of a table's rows.
Injections(n) == { f \in [1..n -> 1..n] : \A i, j \in 1..n : i # j => f[i] # f[j] }

IsPermutationOf(s, table) ==
    /\ Len(s) = Len(table)
    /\ \E f \in Injections(Len(table)) : \A i \in DOMAIN s : s[i] = table[f[i]]

\* ORDER BY date ASC
OrderByDateAsc(table) ==
    { s \in { [i \in 1..Len(table) |-> table[f[i]]] : f \in Injections(Len(table)) } :
        \A i, j \in DOMAIN s : i < j => s[i].date <= s[j].date }

\* SELECT * FROM workouts ORDER BY date DESC: SQL leaves the order of rows
\* with equal dates open, so every arrangement sorted by date is a result.
OrderByDateDesc(table) ==
    { s \in { [i \in 1..Len(table) |-> table[f[i]]] : f \in Injections(Len(table)) } :
        \A i, j \in DOMAIN s : i < j => s[i].date >= s[j].date }

\* SUM(calories) over a set of rows (rows differ by id).
RECURSIVE SumCalories(_)
SumCalories(rows) ==
    IF rows = {} THEN 0
    ELSE LET r == CHOOSE x \in rows : TRUE
         IN  r.calories + SumCalories(rows \ {r})

\* ORDER BY date DESC over the groups.
RECURSIVE DescendingSeq(_)
DescendingSeq(S) ==
    IF S = {} THEN <<>>
    ELSE LET m == CHOOSE x \in S : \A y \in S : x >= y
         IN  <<m>> \o DescendingSeq(S \ {m})

\* ORDER BY date ASC over the groups of GROUP BY date.
RECURSIVE AscendingSeq(_)
AscendingSeq(S) ==
    IF S = {} THEN <<>>
    ELSE LET m == CHOOSE x \in S : \A y \in S : x <= y
         IN  <<m>> \o AscendingSeq(S \ {m})

\* date('now', '-7 days')
SevenDaysAgo(now) == now - 7

\* The query without SUM: calories of one row of each group.
Last7DaysOneRow(table, now) ==
    LET rows  == { r \in Range(table) : r.date >= SevenDaysAgo(now) }
        dates == AscendingSeq({ r.date : r \in rows })
    IN  [i \in DOMAIN dates |->
            [date |-> dates[i],
             calories |-> (CHOOSE r \in rows : r.date = dates[i]).calories]]

\* SELECT date, SUM(calories) as calories FROM workouts
\* WHERE date >= date('now', '-7 days') GROUP BY date ORDER BY date ASC
Last7Days(table, now) ==
    LET rows  == { r \in Range(table) : r.date >= SevenDaysAgo(now) }
        dates == AscendingSeq({ r.date : r \in rows })
    IN  [i \in DOMAIN dates |->
            [date |-> dates[i],
             calories |-> SumCalories({ r \in rows : r.date = dates[i] })]]

-----------------------------------------------------------------------------
(* The request handlers.  Each one is a whole Express handler: it either  *)
(* runs to res.json (status 200) or throws, and Express answers 500.       *)

Store == [workouts |-> workouts, exercises |-> exercises,
          user_profile |-> user_profile, sqlite_sequence |-> sqlite_sequence]

\* An error leaves the process through an uncaught exception.
ProcessDiesOnError(status) == status < 400

\* Express calls a handler inside try/catch and hands what it throws, like
\* what a middleware passes to next(err), to its default error handler: the
\* process stays up whatever the status.
ProcessSurvives(status) == TRUE

\* res.json(value): an array is sent as the sequence of its items, a single
\* object ({id}, {success}, the profile row) as a sequence of one item.
Respond(route, body, status, json) ==
    /\ request' = body
    /\ response' = [route |-> route, status |-> status, body |-> json,
                    now |-> today, error |-> "none"]
    /\ before' = Store
    /\ listening' = ProcessSurvives(status)

\* What reaches Express's default error handler: a SqliteError thrown by a
\* statement (it has no status), or the SyntaxError express.json() passes on
\* for a body that is not JSON (status 400).
SqliteError == [name |-> "SqliteError", status |-> 0]
SyntaxError == [name |-> "SyntaxError", status |-> 400]

\* Every error answered as a server error.
ErrorStatusAlways500(err) == 500

\* The default error handler takes err.status when it is a 4xx or 5xx and
\* answers 500 otherwise.
ErrorStatus(err) == IF err.status \in 400..599 THEN err.status ELSE 500

RespondError(route, body, err) ==
    /\ request' = body
    /\ response' = [route |-> route, status |-> ErrorStatus(err), body |-> <<>>,
                    now |-> today, error |-> err.name]
    /\ before' = Store
    /\ listening' = ProcessSurvives(ErrorStatus(err))

\* app.get("/api/profile"): .get() gives the first row, or undefined.
GetProfile ==
    /\ Respond("GET /api/profile", NoBody, 200,
               SubSeq(SelectSeq(user_profile, LAMBDA r : r.id = 1), 1, 1))
    /\ UNCHANGED <<workouts, exercises, user_profile, sqlite_sequence, assigned, submitted>>

\* An UPDATE that sets name, weight and height and leaves goal.
UpdateProfileKeepsGoal(table, body) ==
    [i \in DOMAIN table |->
        IF table[i].id = 1
        THEN [id |-> 1, name |-> body.name, weight |-> body.weight,
              height |-> body.height, goal |-> table[i].goal]
        ELSE table[i]]

\* UPDATE user_profile SET name = ?, weight = ?, height = ?, goal = ? WHERE id = 1
UpdateProfile(table, body) ==
    [i \in DOMAIN table |->
        IF table[i].id = 1
        THEN [id |-> 1, name |-> body.name, weight |-> body.weight,
              height |-> body.height, goal |-> body.goal]
        ELSE table[i]]

\* app.post("/api/profile")
PostProfile(body) ==
    /\ user_profile' = UpdateProfile(user_profile, body)
    /\ Respond("POST /api/profile", body, 200, <<[success |-> TRUE]>>)
    /\ submitted' = body
    /\ UNCHANGED <<workouts, exercises, sqlite_sequence, assigned>>

\* app.get("/api/workouts")
GetWorkouts ==
    /\ \E rows \in OrderByDateDesc(workouts) :
          Respond("GET /api/workouts", NoBody, 200, rows)
    /\ UNCHANGED <<workouts, exercises, user_profile, sqlite_sequence, assigned, submitted>>

\* workoutId read again from the connection's last insert rowid before each
\* insert: after the first exercise it is the rowid of the exercise before.
InsertedExercisesLastRowid(firstId, workoutId, items) ==
    [i \in 1..InsertedCount(items) |->
        ExerciseRow(firstId + i - 1,
                    IF i = 1 THEN workoutId ELSE firstId + i - 2, items[i])]

\* The rows the loop over req.body.exercises leaves in the table: one row
\* per insert that ran, each with the next rowid and the handler's workoutId.
InsertedExercises(firstId, workoutId, items) ==
    [i \in 1..InsertedCount(items) |-> ExerciseRow(firstId + i - 1, workoutId, items[i])]

\* app.post("/api/workouts"): no transaction, so what was inserted before a
\* statement throws stays in the store.
PostWorkouts(body) ==
    IF WorkoutInsertFails(body)
    THEN /\ RespondError("POST /api/workouts", body, SqliteError)
         /\ UNCHANGED <<workouts, exercises, user_profile, sqlite_sequence, assigned, submitted>>
    ELSE LET workoutId == NextRowid(workouts, sqlite_sequence.workouts)
             items     == LoopItems(body.exercises)
             firstId   == NextRowid(exercises, sqlite_sequence.exercises)
             rows      == InsertedExercises(firstId, workoutId, items)
         IN  /\ workouts' = Append(workouts, WorkoutRow(workoutId, body))
             /\ exercises' = exercises \o rows
             /\ sqlite_sequence' =
                    [workouts  |-> workoutId,
                     exercises |-> sqlite_sequence.exercises + Len(rows)]
             /\ assigned' = Append(assigned, workoutId)
             /\ IF Len(rows) = Len(items)
                THEN Respond("POST /api/workouts", body, 200, <<[id |-> workoutId]>>)
                ELSE RespondError("POST /api/workouts", body, SqliteError)
             /\ UNCHANGED <<user_profile, submitted>>

\* app.get("/api/stats")
GetStats ==
    /\ Respond("GET /api/stats", NoBody, 200, Last7Days(workouts, today))
    /\ UNCHANGED <<workouts, exercises, user_profile, sqlite_sequence, assigned, submitted>>

\* CREATE TABLE after DROP TABLE: every start begins with empty tables.
InitializeDatabaseAnew(file) ==
    [workouts        |-> <<>>,
     exercises       |-> <<>>,
     user_profile    |-> InsertOrIgnore(file.user_profile, DefaultProfile),
     sqlite_sequence |-> file.sqlite_sequence]

\* db.exec at module load: CREATE TABLE IF NOT EXISTS keeps existing tables
\* and their rows; the profile row is seeded with INSERT OR IGNORE.
InitializeDatabase(file) ==
    [workouts        |-> file.workouts,
     exercises       |-> file.exercises,
     user_profile    |-> InsertOrIgnore(file.user_profile, DefaultProfile),
     sqlite_sequence |-> file.sqlite_sequence]

-----------------------------------------------------------------------------
(* The front ends: values *)

\* The API-backed App (src/server.ts:114-751, with src/src/services/
\* geminiService.ts) and the local-storage App (src/server.ts:753-1215, with
\* its own copy of the AI service).
Variants == {"api", "local"}

Questions == {"q1", "q2"}

\* A JavaScript value a relay operation hands back: a string, an object
\* (text is its name field), undefined or null.
JsValue(kind, text) == [kind |-> kind, text |-> text]
JsNull == JsValue("null", "")
JsUndefined == JsValue("undefined", "")

\* JavaScript truthiness: value || fallback, value && ...
Truthy(value) ==
    \/ value.kind = "object"
    \/ value.kind = "string" /\ value.text # ""

\* What ai.models.generateContent does: it resolves with a text, with JSON
\* text, with text that is not JSON, with no text, or it rejects.
AdviceUpstreams == {"text", "empty", "rejects"}
PlanUpstreams == {"json", "unparsable", "empty", "rejects"}

Returned(value) == [outcome |-> "returned", value |-> value, calls |-> 1]
Thrown == [outcome |-> "thrown", value |-> JsUndefined, calls |-> 1]

\* geminiService.ts getFitnessAdvice: one await of generateContent, no
\* try/catch; returns response.text.
getFitnessAdvice(upstream) ==
    CASE upstream = "text"    -> Returned(JsValue("string", "answer"))
      [] upstream = "empty"   -> Returned(JsUndefined)
      [] upstream = "rejects" -> Thrown

\* The local-storage App's getFitnessAdvice: the catch returns a message.
getFitnessAdviceInline(upstream) ==
    CASE upstream = "text"    -> Returned(JsValue("string", "answer"))
      [] upstream = "empty"   -> Returned(JsUndefined)
      [] upstream = "rejects" ->
            Returned(JsValue("string", "Erro ao conectar com a IA. Verifique sua chave de API."))

\* generateWorkoutPlan (the same in both): JSON.parse(response.text || "{}")
\* inside try, the catch returns null.
generateWorkoutPlan(upstream) ==
    CASE upstream = "json"       -> Returned(JsValue("object", "Treino A"))
      [] upstream = "empty"      -> Returned(JsValue("object", ""))
      [] upstream = "unparsable" -> Returned(JsNull)
      [] upstream = "rejects"    -> Returned(JsNull)

\* No relay call has settled yet.
NoRelay ==
    [op |-> "none", variant |-> "none", upstream |-> "none",
     outcome |-> "none", value |-> JsUndefined, calls |-> 0]

\* Instants are milliseconds since 00:00 UTC of day 0.
MsPerHour == 60 * 60 * 1000
MsPerDay == 24 * MsPerHour

\* Time zones: the offset from UTC before and after one change of offset.
\* Europe/Berlin leaves summer time and America/New_York enters it two days
\* before Day0.
UTC == [name |-> "UTC", before |-> 0, after |-> 0, switch |-> 0]

Zones ==
    { UTC,
      [name |-> "America/Sao_Paulo", before |-> -3, after |-> -3, switch |-> 0],
      [name |-> "Europe/Berlin", before |-> 2, after |-> 1,
       switch |-> (Day0 - 2) * MsPerDay + MsPerHour],
      [name |-> "America/New_York", before |-> -5, after |-> -4,
       switch |-> (Day0 - 2) * MsPerDay + 7 * MsPerHour] }

\* The instants the clock is read at: 00:30, one millisecond later, 12:00
\* and 23:30 UTC of Day0.
Instants ==
    { Day0 * MsPerDay + t :
        t \in { MsPerHour \div 2, MsPerHour \div 2 + 1, 12 * MsPerHour,
                23 * MsPerHour + MsPerHour \div 2 } }

FirstInstant == CHOOSE t \in Instants : \A u \in Instants : t <= u

\* Local time = UTC + offset.
Offset(z, t) == (IF t < z.switch THEN z.before ELSE z.after) * MsPerHour

LocalTime(z, t) == t + Offset(z, t)

\* The instant of a local time (ECMAScript UTC(t)): a local time that occurs
\* twice or not at all is read with the offset before the change.
LocalToUtc(z, local) ==
    IF local - z.before * MsPerHour < z.switch THEN local - z.before * MsPerHour
    ELSE IF local - z.after * MsPerHour >= z.switch THEN local - z.after * MsPerHour
    ELSE local - z.before * MsPerHour

\* d.toISOString().split('T')[0]: the UTC date of an instant, as a day number.
IsoDate(t) == t \div MsPerDay

\* .filter(w => w.date === dateStr).reduce((acc, w) => acc + w.calories, 0)
RECURSIVE DayCalories(_, _)
DayCalories(list, dateStr) ==
    IF list = <<>> THEN 0
    ELSE (IF Head(list).date = dateStr THEN Head(list).calories ELSE 0)
            + DayCalories(Tail(list), dateStr)

\* d = new Date(); d.setDate(d.getDate() - i): the same local time of day,
\* i local days earlier.
SetDateBack(z, t, i) == LocalToUtc(z, LocalTime(z, t) - i * MsPerDay)

\* The stats useMemo: for i = 6 down to 0 one entry.
ClientStats(list, t, z) ==
    [k \in 1..7 |->
        LET dateStr == IsoDate(SetDateBack(z, t, 7 - k))
        IN  [date |-> dateStr, calories |-> DayCalories(list, dateStr)]]

\* What the add form holds when Salvar is clicked.
NewWorkouts ==
    { [name |-> n, duration |-> 30, calories |-> 200, date |-> d] :
        n \in {"", "Corrida"}, d \in {Day0 - 2, Day0} }

\* fitness.db before the first start: no table has a row.
EmptyFile ==
    [workouts |-> <<>>, exercises |-> <<>>, user_profile |-> <<>>,
     sqlite_sequence |-> [workouts |-> 0, exercises |-> 0]]

Started(day) ==
    [route |-> "start", status |-> 0, body |-> <<>>, now |-> day, error |-> "none"]

InitStore ==
    /\ workouts = InitializeDatabase(EmptyFile).workouts
    /\ exercises = InitializeDatabase(EmptyFile).exercises
    /\ user_profile = InitializeDatabase(EmptyFile).user_profile
    /\ sqlite_sequence = InitializeDatabase(EmptyFile).sqlite_sequence
    /\ today = Day0
    /\ pending = {}
    /\ request = NoBody
    /\ response = Started(Day0)
    /\ before = EmptyFile
    /\ assigned = <<>>
    /\ served = <<>>
    /\ submitted = NoBody
    /\ listening = TRUE

\* AICoach as it mounts.
InitCoach(v) ==
    /\ variant = v
    /\ query = ""
    /\ chat = <<>>
    /\ loading = FALSE
    /\ suggestedWorkout = JsNull
    /\ inflight = {}
    /\ started = 0
    /\ relay = NoRelay

\* The local-storage App as it mounts, nothing saved in localStorage.
InitLocal(z, t) ==
    /\ fitpulse_workouts = <<>>
    /\ removed = 0
    /\ clock = t
    /\ zone = z
    /\ stats = [at |-> t, entries |-> ClientStats(<<>>, t, z)]

Init == InitStore /\ InitCoach("api") /\ InitLocal(UTC, FirstInstant)

\* The process is started again on the database file it left.
Restart ==
    /\ workouts' = InitializeDatabase(Store).workouts
    /\ exercises' = InitializeDatabase(Store).exercises
    /\ user_profile' = InitializeDatabase(Store).user_profile
    /\ sqlite_sequence' = InitializeDatabase(Store).sqlite_sequence
    /\ pending' = {}
    /\ request' = NoBody
    /\ response' = Started(today)
    /\ before' = Store
    /\ listening' = TRUE
    /\ UNCHANGED <<today, assigned, served, submitted>>
    /\ UNCHANGED frontVars

\* Midnight passes.
Tick ==
    /\ today < Day0 + MaxTicks
    /\ today' = today + 1
    /\ UNCHANGED <<workouts, exercises, user_profile, sqlite_sequence,
                   pending, request, response, before, assigned, served,
                   submitted, listening>>
    /\ UNCHANGED frontVars

\* A request is handled as soon as it arrives.
Serve(Handler) ==
    listening /\ Handler /\ UNCHANGED <<today, pending, served>> /\ UNCHANGED frontVars

Handle ==
    \/ Serve(GetProfile)
    \/ \E body \in ProfileBodies : Serve(PostProfile(body))
    \/ Serve(GetWorkouts)
    \/ \E body \in WorkoutBodies :
          Len(workouts) < MaxWorkouts /\ Serve(PostWorkouts(body))
    \/ Serve(GetStats)

Next == Handle \/ Restart \/ Tick

Spec == Init /\ [][Next]_vars

-----------------------------------------------------------------------------
(* Requests that do not reach the end of their handler for a reason other  *)
(* than their fields: a body that is not JSON, and a statement that throws *)
(* because the storage fails.                                              *)

Routes == {"GET /api/profile", "POST /api/profile", "GET /api/workouts",
           "POST /api/workouts", "GET /api/stats"}

PostRoutes == {"POST /api/profile", "POST /api/workouts"}

\* app.use(express.json()): the body does not parse, the middleware calls
\* next(err) and the route's handler is not called.
RejectMalformed(route) ==
    /\ RespondError(route, NoBody, SyntaxError)
    /\ UNCHANGED <<workouts, exercises, user_profile, sqlite_sequence, assigned, submitted>>

\* The first statement of a handler throws (the disk fails): the handler is
\* left at that statement and nothing runs it again.
StorageFails(route) ==
    /\ RespondError(route, NoBody, SqliteError)
    /\ UNCHANGED <<workouts, exercises, user_profile, sqlite_sequence, assigned, submitted>>

FaultNext ==
    \/ Handle
    \/ Restart
    \/ \E route \in PostRoutes : Serve(RejectMalformed(route))
    \/ \E route \in Routes : Serve(StorageFails(route))

FaultSpec == Init /\ [][FaultNext]_vars

-----------------------------------------------------------------------------
(* Requests of several clients in flight at once.  A request waits in the  *)
(* event loop until its handler is called; the handler then runs to its    *)
(* end before any other handler starts.                                    *)

Clients == {"c1", "c2"}

\* What a client posts to /api/workouts: each client has exercises of its
\* own, so a row of the exercises table tells who submitted it.
ExerciseOf(c) == IF c = "c1" THEN Squat ELSE Bench

ClientBodies(c) ==
    { [name |-> "Leg Day", date |-> d, duration |-> 45, calories |-> 300,
       exercises |-> [kind |-> "array", items |-> s]] :
        d \in {Day0, Day0 + 1},
        s \in { <<>>, <<ExerciseOf(c)>>, <<ExerciseOf(c), ExerciseOf(c)>>,
                <<ExerciseOf(c), NoName>> } }

Receive(c) ==
    /\ Cardinality(pending) < MaxPending
    /\ Len(workouts) + Cardinality(pending) < MaxWorkouts
    /\ \A r \in pending : r.client # c
    /\ \E body \in ClientBodies(c) :
          pending' = pending \cup {[client |-> c, body |-> body]}
    /\ UNCHANGED <<workouts, exercises, user_profile, sqlite_sequence, today,
                   request, response, before, assigned, served,
                   submitted, listening>>
    /\ UNCHANGED frontVars

Dispatch(r) ==
    /\ listening
    /\ PostWorkouts(r.body)
    /\ pending' = pending \ {r}
    /\ served' = Append(served,
          [client  |-> r.client,
           created |-> { workouts'[i].id : i \in (Len(workouts) + 1)..Len(workouts') },
           waiting |-> { w.client : w \in pending \ {r} }])
    /\ UNCHANGED today
    /\ UNCHANGED frontVars

ConcNext ==
    \/ \E c \in Clients : Receive(c)
    \/ \E r \in pending : Dispatch(r)

ConcSpec == Init /\ [][ConcNext]_vars

-----------------------------------------------------------------------------
(* Requests to all five routes in flight at once, some of them failing in  *)
(* the store.  Node calls the handler of every request it has accepted:    *)
(* the event loop runs its callbacks in turn and no handler blocks.        *)

\* What a client may send: a route and, for a POST, a body.
ClientRequests(c) ==
    { [client |-> c, route |-> route, body |-> NoBody] :
        route \in {"GET /api/profile", "GET /api/workouts", "GET /api/stats"} }
    \cup { [client |-> c, route |-> "POST /api/profile", body |-> body] :
             body \in { b \in ProfileBodies : b.weight > 0 } }
    \cup { [client |-> c, route |-> "POST /api/workouts", body |-> body] :
             body \in { b \in ClientBodies(c) :
                          /\ b.date = Day0
                          /\ Len(b.exercises.items) \in {1, 2} } }

Accept(c) ==
    /\ Len(served) + Cardinality(pending) < MaxServed
    /\ \A r \in pending : r.client # c
    /\ \E r \in ClientRequests(c) :
          /\ r.route = "POST /api/workouts" =>
                Len(workouts) + Cardinality(pending) < MaxWorkouts
          /\ pending' = pending \cup {r}
    /\ UNCHANGED <<workouts, exercises, user_profile, sqlite_sequence, today,
                   request, response, before, assigned, served,
                   submitted, listening>>
    /\ UNCHANGED frontVars

\* The route's handler, as app.get / app.post registered it.
HandlerOf(r) ==
    CASE r.route = "GET /api/profile"   -> GetProfile
      [] r.route = "POST /api/profile"  -> PostProfile(r.body)
      [] r.route = "GET /api/workouts"  -> GetWorkouts
      [] r.route = "POST /api/workouts" -> PostWorkouts(r.body)
      [] r.route = "GET /api/stats"     -> GetStats

\* A handler that throws and leaves its request without an answer.
CallHandlerHangsOnThrow(r) ==
    /\ listening
    /\ \/ /\ HandlerOf(r)
          /\ pending' = pending \ {r}
          /\ served' = Append(served,
                [client  |-> r.client,
                 created |-> { workouts'[i].id : i \in (Len(workouts) + 1)..Len(workouts') },
                 status  |-> response'.status,
                 waiting |-> { w.client : w \in pending \ {r} }])
       \/ /\ StorageFails(r.route)
          /\ UNCHANGED <<pending, served>>
    /\ UNCHANGED today
    /\ UNCHANGED frontVars

\* The event loop calls the handler of a request; the handler runs to its
\* res.json, or throws into Express's error handler, which answers.
CallHandler(r) ==
    /\ listening
    /\ HandlerOf(r) \/ StorageFails(r.route)
    /\ pending' = pending \ {r}
    /\ served' = Append(served,
          [client  |-> r.client,
                 created |-> { workouts'[i].id : i \in (Len(workouts) + 1)..Len(workouts') },
                 status  |-> response'.status,
           waiting |-> { w.client : w \in pending \ {r} }])
    /\ UNCHANGED today
    /\ UNCHANGED frontVars

LiveNext ==
    \/ \E c \in Clients : Accept(c)
    \/ \E r \in pending : CallHandler(r)

\* Every accepted request has its handler called.
LiveFairness ==
    \A c \in Clients : WF_vars(\E r \in pending : r.client = c /\ CallHandler(r))

LiveSpec == Init /\ [][LiveNext]_vars /\ LiveFairness

-----------------------------------------------------------------------------
(* The AI Coach screen.  A handler runs up to its await in one step; the   *)
(* rest of it runs in a later step, when the relay's promise settles.      *)

\* setQuery(e.target.value)
Type(q) ==
    /\ query = ""
    /\ query' = q
    /\ UNCHANGED <<variant, chat, loading, suggestedWorkout, inflight, started, relay>>
    /\ UNCHANGED <<storeVars, localVars>>

\* handleAsk from its first line to the await of getFitnessAdvice.
AskUpToAwait ==
    /\ started < MaxCalls
    /\ query' = ""
    /\ chat' = Append(chat, [role |-> "user", call |-> started + 1, content |-> query])
    /\ loading' = TRUE
    /\ inflight' = inflight \cup {[id |-> started + 1, op |-> "advice"]}
    /\ started' = started + 1
    /\ UNCHANGED <<variant, suggestedWorkout, relay>>
    /\ UNCHANGED <<storeVars, localVars>>

\* handleAsk of the API-backed App: if (!query) return;
handleAskApi == variant = "api" /\ query # "" /\ AskUpToAwait

\* handleAsk of the local-storage App: if (!query || loading) return;
handleAskLocal == variant = "local" /\ query # "" /\ ~loading /\ AskUpToAwait

\* <Button onClick={handleAsk} disabled={loading}>Enviar</Button>
ClickEnviar == ~loading /\ (handleAskApi \/ handleAskLocal)

\* onKeyDown={e => e.key === 'Enter' && handleAsk()}
PressEnter == handleAskApi \/ handleAskLocal

\* handleGenerateWorkout / handleGenerate up to the await, behind
\* <Button ... disabled={loading}>.
ClickGenerate ==
    /\ ~loading
    /\ started < MaxCalls
    /\ loading' = TRUE
    /\ suggestedWorkout' = IF variant = "local" THEN JsNull ELSE suggestedWorkout
    /\ inflight' = inflight \cup {[id |-> started + 1, op |-> "plan"]}
    /\ started' = started + 1
    /\ UNCHANGED <<variant, query, chat, relay>>
    /\ UNCHANGED <<storeVars, localVars>>

\* setLoading(false) as the last statement of the try block.
LoadingAfterTry(outcome) == outcome = "thrown" /\ loading

\* finally { setLoading(false) }
LoadingAfter(outcome) == FALSE

\* The message handleAsk appends for what the relay returned.
Reply(call, value) ==
    [role |-> "ai", call |-> call.id,
     content |-> IF Truthy(value) THEN value.text
                 ELSE IF variant = "api" THEN "Desculpe, tive um problema." ELSE ""]

\* The rest of handleAsk: the awaited getFitnessAdvice settles.
AdviceSettles(call, upstream) ==
    LET res == IF variant = "api" THEN getFitnessAdvice(upstream)
               ELSE getFitnessAdviceInline(upstream)
    IN  /\ call.op = "advice"
        /\ chat' =
              IF res.outcome = "returned" THEN Append(chat, Reply(call, res.value))
              ELSE IF variant = "api" THEN chat
              ELSE Append(chat, [role |-> "ai", call |-> call.id,
                                 content |-> "Erro ao conectar com o Coach."])
        /\ loading' = LoadingAfter(res.outcome)
        /\ relay' = [op |-> "getFitnessAdvice", variant |-> variant,
                     upstream |-> upstream, outcome |-> res.outcome,
                     value |-> res.value, calls |-> res.calls]
        /\ inflight' = inflight \ {call}
        /\ UNCHANGED <<variant, query, suggestedWorkout, started>>
        /\ UNCHANGED <<storeVars, localVars>>

\* The rest of handleGenerateWorkout / handleGenerate.
PlanSettles(call, upstream) ==
    LET res == generateWorkoutPlan(upstream)
    IN  /\ call.op = "plan"
        /\ suggestedWorkout' = res.value
        /\ loading' = LoadingAfter(res.outcome)
        /\ relay' = [op |-> "generateWorkoutPlan", variant |-> variant,
                     upstream |-> upstream, outcome |-> res.outcome,
                     value |-> res.value, calls |-> res.calls]
        /\ inflight' = inflight \ {call}
        /\ UNCHANGED <<variant, query, chat, started>>
        /\ UNCHANGED <<storeVars, localVars>>

Settle ==
    \E call \in inflight :
        \/ \E upstream \in AdviceUpstreams : AdviceSettles(call, upstream)
        \/ \E upstream \in PlanUpstreams : PlanSettles(call, upstream)

CoachInit ==
    /\ InitStore
    /\ \E v \in Variants : InitCoach(v)
    /\ InitLocal(UTC, FirstInstant)

CoachNext ==
    \/ \E q \in Questions : Type(q)
    \/ ClickEnviar
    \/ PressEnter
    \/ ClickGenerate
    \/ Settle

\* A promise that is awaited settles: generateContent resolves or rejects.
CoachFairness == WF_vars(Settle)

CoachSpec == CoachInit /\ [][CoachNext]_vars /\ CoachFairness

-----------------------------------------------------------------------------
(* The local-storage App: the workouts list, its ids read from the clock,  *)
(* and the stats computed from the list.                                   *)

\* useMemo(..., [workouts]): computed again when the list changes.
Memo(list) == [at |-> clock, entries |-> ClientStats(list, clock, zone)]

\* Workouts.handleAdd: setWorkouts([{ ...newWorkout, id: Date.now() }, ...workouts])
handleAdd(newWorkout) ==
    /\ newWorkout.name # ""
    /\ Len(fitpulse_workouts) < MaxList
    /\ fitpulse_workouts' =
          <<[id |-> clock, name |-> newWorkout.name, date |-> newWorkout.date,
             duration |-> newWorkout.duration, calories |-> newWorkout.calories]>>
          \o fitpulse_workouts
    /\ stats' = Memo(fitpulse_workouts')
    /\ UNCHANGED <<removed, clock, zone>>
    /\ UNCHANGED <<storeVars, coachVars>>

\* "Salvar no Historico" of the card that shows suggestedWorkout (the card
\* renders for a plan with exercises): onWorkoutSaved({ id: Date.now(), ... })
\* with onWorkoutSaved = (w) => setWorkouts([w, ...workouts]).
SaveSuggested ==
    /\ variant = "local"
    /\ suggestedWorkout.kind = "object" /\ suggestedWorkout.text # ""
    /\ Len(fitpulse_workouts) < MaxList
    /\ fitpulse_workouts' =
          <<[id |-> clock, name |-> suggestedWorkout.text, date |-> IsoDate(clock),
             duration |-> 45, calories |-> 350]>>
          \o fitpulse_workouts
    /\ suggestedWorkout' = JsNull
    /\ stats' = Memo(fitpulse_workouts')
    /\ UNCHANGED <<removed, clock, zone>>
    /\ UNCHANGED <<variant, query, chat, loading, inflight, started, relay>>
    /\ UNCHANGED storeVars

\* Workouts.handleDelete, the confirm dialog accepted:
\* setWorkouts(workouts.filter(w => w.id !== id))
handleDelete(id) ==
    /\ fitpulse_workouts' = SelectSeq(fitpulse_workouts, LAMBDA w : w.id # id)
    /\ removed' = Len(fitpulse_workouts) - Len(fitpulse_workouts')
    /\ stats' = Memo(fitpulse_workouts')
    /\ UNCHANGED <<clock, zone>>
    /\ UNCHANGED <<storeVars, coachVars>>

\* Time passes between two events.
Elapse ==
    /\ \E t \in Instants : t > clock /\ clock' = t
    /\ UNCHANGED <<fitpulse_workouts, removed, zone, stats>>
    /\ UNCHANGED <<storeVars, coachVars>>

LocalInit ==
    /\ InitStore
    /\ InitCoach("local")
    /\ \E z \in Zones, t \in Instants : InitLocal(z, t)

LocalNext ==
    \/ \E newWorkout \in NewWorkouts : handleAdd(newWorkout)
    \/ SaveSuggested
    \/ \E i \in DOMAIN fitpulse_workouts : handleDelete(fitpulse_workouts[i].id)
    \/ Elapse
    \/ ClickGenerate
    \/ \E call \in inflight, upstream \in PlanUpstreams : PlanSettles(call, upstream)

LocalSpec == LocalInit /\ [][LocalNext]_vars

-----------------------------------------------------------------------------
(* Properties *)

IsPost == response.route = "POST /api/workouts"
IsStats == response.route = "GET /api/stats"
IsStart == response.route = "start"

\* The tables of a database file.
Tables(file) == <<file.workouts, file.exercises, file.user_profile>>

\* C1: a POST /api/workouts that fails (one of its inserts throws, answered
\* 500) leaves the three tables exactly as the request found them: no
\* workout row and no exercise row of the request stays.
C1_FailedCreateLeavesStore ==
    (IsPost /\ response.status = 500) => Tables(Store) = Tables(before)

\* C2: GET /api/stats answers with exactly 7 entries, the i-th for the day
\* today - 7 + i, and an entry of a day without workouts has calories 0.
C2_StatsHasSevenEntries ==
    IsStats =>
        /\ Len(response.body) = 7
        /\ \A i \in 1..7 :
              /\ response.body[i].date = response.now - 7 + i
              /\ (\A r \in Range(before.workouts) : r.date # response.body[i].date)
                    => response.body[i].calories = 0

RECURSIVE SumSeq(_)
SumSeq(s) == IF s = <<>> THEN 0 ELSE s[1].calories + SumSeq(Tail(s))

InWindow(day, now) == now - 6 <= day /\ day <= now

\* C3: the calories of the entries of GET /api/stats add up to the calories
\* of the workouts dated from today - 6 to today; other workouts add nothing.
C3_StatsSumIsWindowSum ==
    IsStats =>
        SumSeq(response.body) =
            SumCalories({ r \in Range(before.workouts) : InWindow(r.date, response.now) })

RemoveAt(s, i) == SubSeq(s, 1, i - 1) \o SubSeq(s, i + 1, Len(s))

\* C4: after a POST /api/workouts answered 200, every listing of the
\* workouts has one entry more than a listing before had; that entry has the
\* returned id and the submitted name, date, duration and calories, and the
\* other entries are the entries of before, unchanged.
C4_CreateAddsOneEntry ==
    (IsPost /\ response.status = 200) =>
        \A listed \in OrderByDateDesc(workouts) :
            /\ Len(listed) = Len(before.workouts) + 1
            /\ \E i \in DOMAIN listed :
                  /\ listed[i] = [id |-> response.body[1].id, name |-> request.name,
                                  date |-> request.date,
                                  duration |-> request.duration,
                                  calories |-> request.calories]
                  /\ listed[i] \notin Range(before.workouts)
                  /\ IsPermutationOf(RemoveAt(listed, i), before.workouts)

C4_Witness ==
    /\ IsPost /\ response.status = 200
    /\ Len(before.workouts) = 1
    /\ before.workouts[1].date # request.date
    /\ before.workouts[1].calories # request.calories

\* C5: the workout ids handed out are strictly increasing in the order of
\* the calls, and the id a call returns is the one handed out last.
C5_IdsStrictlyIncrease ==
    /\ \A i, j \in DOMAIN assigned : i < j => assigned[i] < assigned[j]
    /\ (IsPost /\ response.status = 200) =>
          /\ assigned # <<>>
          /\ response.body[1].id = assigned[Len(assigned)]
          /\ \A r \in Range(before.workouts) : r.id < response.body[1].id

C5_Witness == IsPost /\ response.status = 200 /\ Len(assigned) = 2

SameExercise(row, ex) ==
    /\ row.name = ex.name /\ row.sets = ex.sets
    /\ row.reps = ex.reps /\ row.weight = ex.weight

\* C6: after a POST /api/workouts that inserted its workout and carried an
\* array of N exercises, exactly N rows of exercises have the new workout's
\* id, and the i-th of them holds the i-th submitted exercise.
C6_AllExercisesInOrder ==
    (/\ IsPost
     /\ request.name # NULL
     /\ request.exercises.kind = "array") =>
        LET id   == workouts[Len(workouts)].id
            rows == SelectSeq(exercises, LAMBDA e : e.workout_id = id)
        IN  /\ Len(workouts) = Len(before.workouts) + 1
            /\ Len(rows) = Len(request.exercises.items)
            /\ \A i \in DOMAIN rows : SameExercise(rows[i], request.exercises.items[i])

\* C7: with requests of several clients in flight, every exercise row is
\* attached to a workout created by the request of the client who submitted
\* that exercise, and to no workout created by another request.
C7_ExercisesStayWithTheirRequest ==
    \A e \in Range(exercises) :
        /\ \E k \in DOMAIN served :
              /\ e.workout_id \in served[k].created
              /\ e.name = ExerciseOf(served[k].client).name
        /\ \A k \in DOMAIN served :
              e.workout_id \in served[k].created
                  => e.name = ExerciseOf(served[k].client).name

C7_Witness ==
    /\ Len(served) = 2
    /\ served[1].waiting # {}
    /\ \E e1, e2 \in Range(exercises) :
          /\ e1.name = ExerciseOf(served[1].client).name
          /\ e2.name = ExerciseOf(served[2].client).name
          /\ e1.workout_id # e2.workout_id

\* C8: every row of exercises has the id of a row of workouts as its
\* workout_id, also after a POST /api/workouts that failed part-way.
C8_ExerciseReferencesWorkout ==
    \A e \in Range(exercises) : \E w \in Range(workouts) : w.id = e.workout_id

C8_Witness ==
    /\ IsPost /\ response.status = 500
    /\ Len(exercises) > Len(before.exercises)
    /\ Len(workouts) = 2

\* C9: the table user_profile holds exactly one row, the row with id 1.
C9_OneProfileRow == Len(user_profile) = 1 /\ user_profile[1].id = 1

C9_Witness ==
    /\ IsStart
    /\ user_profile[1].name = "Ana"
    /\ Len(workouts) = 1

\* C10: a start on a database file that has a profile row leaves the table
\* with one row, and that row as the file had it.
C10_InitKeepsProfile ==
    (IsStart /\ before.user_profile # <<>>) =>
        /\ Len(user_profile) = 1
        /\ user_profile = before.user_profile

C10_Witness ==
    /\ IsStart
    /\ before.user_profile # <<>>
    /\ before.user_profile[1].weight = -5

IsGetProfile == response.route = "GET /api/profile"
IsList == response.route = "GET /api/workouts"

\* C11: a GET /api/profile answered after a POST /api/profile, with no other
\* POST /api/profile in between, returns the name, weight, height and goal
\* that POST submitted (a negative weight included).
C11_GetReturnsSubmitted ==
    (IsGetProfile /\ response.status = 200 /\ submitted.name # NULL) =>
        /\ Len(response.body) = 1
        /\ response.body[1].name = submitted.name
        /\ response.body[1].weight = submitted.weight
        /\ response.body[1].height = submitted.height
        /\ response.body[1].goal = submitted.goal

C11_Witness ==
    /\ IsGetProfile /\ response.status = 200
    /\ submitted.name # NULL
    /\ submitted.weight = -5

\* C12: in the answer of GET /api/workouts no entry has a later date than
\* an entry before it.
C12_ListSortedByDateDesc ==
    (IsList /\ response.status = 200) =>
        \A i, j \in DOMAIN response.body :
            i < j => response.body[i].date >= response.body[j].date

C12_Witness ==
    /\ IsList /\ response.status = 200
    /\ Len(response.body) = 2
    /\ response.body[1].date > response.body[2].date
    /\ response.body[1].id > response.body[2].id

\* C13: in the answer of GET /api/workouts, of two entries with the same
\* date the one with the greater id comes first.
C13_TiesByIdDesc ==
    (IsList /\ response.status = 200) =>
        \A i, j \in DOMAIN response.body :
            (i < j /\ response.body[i].date = response.body[j].date)
                => response.body[i].id > response.body[j].id

\* C14: a POST /api/workouts whose body has no name, or has an exercise
\* without a name, is answered with a 4xx status and leaves the three tables
\* as it found them.
C14_MissingFieldRejected ==
    (/\ IsPost
     /\ \/ request.name = NULL
        \/ \E i \in DOMAIN LoopItems(request.exercises) :
              LoopItems(request.exercises)[i].name = NULL) =>
        /\ response.status \in 400..499
        /\ Tables(Store) = Tables(before)

\* C15: a POST whose body is not JSON is answered 400, leaves the three
\* tables as they were, and the server takes the next request.
C15_MalformedJsonRejected ==
    response.error = "SyntaxError" =>
        /\ response.status = 400
        /\ Tables(Store) = Tables(before)
        /\ listening
        /\ ENABLED Serve(GetProfile)

C15_Witness ==
    /\ response.error = "SyntaxError"
    /\ response.route = "POST /api/workouts"
    /\ Len(workouts) = 1

\* C16: a request during which a statement throws is answered with a 5xx
\* status, the statement is not run a second time (the request leaves what
\* one run of its handler up to the throw leaves), and the server takes the
\* next request.
C16_StorageFailureIs5xx ==
    response.error = "SqliteError" =>
        /\ response.status \in 500..599
        /\ listening
        /\ ENABLED Serve(GetStats)
        /\ IF IsPost /\ request.name # NULL
           THEN /\ Len(workouts) = Len(before.workouts) + 1
                /\ Len(exercises) - Len(before.exercises)
                      = InsertedCount(LoopItems(request.exercises))
                /\ Len(exercises) - Len(before.exercises)
                      < Len(LoopItems(request.exercises))
           ELSE Tables(Store) = Tables(before)

C16_Witness ==
    /\ response.error = "SqliteError"
    /\ response.route = "GET /api/stats"
    /\ Len(workouts) = 1

\* C17: every entry of the answer of GET /api/stats has calories >= 0.
C17_StatsNonNegative ==
    IsStats => \A i \in DOMAIN response.body : response.body[i].calories >= 0

IsPrefix(s, t) == Len(s) <= Len(t) /\ \A i \in DOMAIN s : t[i] = s[i]

\* C18: whatever the server did last (a route or a start), the workout rows
\* it found are still in the table, in their places and with their id, name,
\* date, duration and calories.
C18_WorkoutRowsStay == IsPrefix(before.workouts, workouts)

C18_Witness ==
    /\ IsStart
    /\ Len(before.workouts) = 2
    /\ submitted.name # NULL

\* The calories of the rows of a table dated d, added up.
RECURSIVE TotalOn(_, _)
TotalOn(table, d) ==
    IF table = <<>> THEN 0
    ELSE (IF Head(table).date = d THEN Head(table).calories ELSE 0)
            + TotalOn(Tail(table), d)

\* C19: each entry (date d, calories c) of the answer of GET /api/stats has
\* c equal to the sum of calories over all workout rows dated exactly d.
C19_EntryIsSumOfItsDate ==
    (IsStats /\ response.status = 200) =>
        \A i \in DOMAIN response.body :
            response.body[i].calories = TotalOn(before.workouts, response.body[i].date)

C19_Witness ==
    /\ IsStats /\ response.status = 200
    /\ Len(before.workouts) = 2
    /\ Len(response.body) = 1
    /\ response.body[1].calories = 250

\* C20: the entries of the answer of GET /api/stats are in strictly
\* ascending order of date, so no date is in two entries.
C20_StatsStrictlyAscending ==
    (IsStats /\ response.status = 200) =>
        \A i, j \in DOMAIN response.body :
            i < j => response.body[i].date < response.body[j].date

C20_Witness ==
    /\ IsStats /\ response.status = 200
    /\ Len(response.body) = 2

\* C21: a POST /api/workouts with a name whose exercises field is absent or
\* is not an array is answered 200 with the id of the one workout row it
\* added, adds no exercise row and reports no error.
C21_NoExercisesFieldStillCreates ==
    (/\ IsPost
     /\ request.name # NULL
     /\ request.exercises.kind \in {"absent", "scalar"}) =>
        /\ response.status = 200
        /\ response.error = "none"
        /\ Len(workouts) = Len(before.workouts) + 1
        /\ workouts[Len(workouts)].id = response.body[1].id
        /\ workouts[Len(workouts)].name = request.name
        /\ exercises = before.exercises

C21_Witness ==
    /\ IsPost
    /\ request.name # NULL
    /\ request.exercises.kind = "scalar"
    /\ Len(before.exercises) = 2

InFlight(c) == \E r \in pending : r.client = c

\* C22: a request in flight is eventually answered; the step that takes it
\* out of flight adds exactly one response, addressed to its client, and no
\* response is added otherwise; and the handler of every request in flight
\* can be called at once, whatever else is in flight.
C22_EveryRequestAnsweredOnce ==
    /\ \A c \in Clients : InFlight(c) ~> ~InFlight(c)
    /\ [][/\ \A r \in pending : r \notin pending' =>
                /\ Len(served') = Len(served) + 1
                /\ served'[Len(served')].client = r.client
          /\ Len(served') # Len(served) =>
                /\ Len(served') = Len(served) + 1
                /\ Cardinality(pending \ pending') = 1]_vars
    /\ [](\A r \in pending : ENABLED CallHandler(r))

C22_Witness ==
    \E i \in DOMAIN served :
        /\ served[i].status = 500
        /\ served[i].waiting # {}

UpstreamFailed == relay.upstream \in {"rejects", "unparsable"}

\* C23: a call of generateWorkoutPlan or getFitnessAdvice of
\* geminiService.ts makes one upstream call, and when the upstream call
\* rejects or its answer does not parse, the operation returns null and
\* does not throw.
C23_RelayReturnsNullOnFailure ==
    (relay.op # "none" /\ relay.variant = "api") =>
        /\ relay.calls = 1
        /\ UpstreamFailed =>
              /\ relay.outcome = "returned"
              /\ relay.value = JsNull

\* C24: whenever loading is true it is false again later (the relay call
\* having returned a value, returned null or thrown).
C24_LoadingReturnsToFalse == loading ~> ~loading

C24_Witness ==
    /\ ~loading
    /\ relay.outcome = "thrown"
    /\ started = 1

AdviceInFlight == { c \in inflight : c.op = "advice" }

\* The calls the ai messages of the chat answer, in the order of the chat.
Replies == SelectSeq(chat, LAMBDA m : m.role = "ai")

\* C25: in the API-backed App at most one getFitnessAdvice call is awaited
\* at any time, and the replies in the chat are in the order of their
\* questions.
C25_OneAdviceCallAtATime ==
    variant = "api" =>
        /\ Cardinality(AdviceInFlight) <= 1
        /\ \A i, j \in DOMAIN Replies : i < j => Replies[i].call < Replies[j].call

\* C26: the workouts of the list have pairwise distinct ids, and a
\* handleDelete takes exactly one workout out.
C26_LocalIdsDistinct ==
    /\ \A i, j \in DOMAIN fitpulse_workouts :
          i # j => fitpulse_workouts[i].id # fitpulse_workouts[j].id
    /\ removed <= 1

LocalDate(z, t) == LocalTime(z, t) \div MsPerDay

\* The k-th of 7 entries is for day (last - 7 + k).
SevenDaysTo(entries, last) ==
    \A k \in 1..7 : entries[k].date = last - 7 + k

\* C27: the stats are 7 entries, for the days today - 6 .. today in that
\* order (today read as the UTC date or as the local date of the instant
\* of the computation), each with the sum of calories of the workouts of
\* its date.
C27_ClientStatsSevenDays ==
    /\ Len(stats.entries) = 7
    /\ \/ SevenDaysTo(stats.entries, IsoDate(stats.at))
       \/ SevenDaysTo(stats.entries, LocalDate(zone, stats.at))
    /\ \A k \in 1..7 :
          stats.entries[k].calories = TotalOn(fitpulse_workouts, stats.entries[k].date)

====
